---------------------------- MODULE Spec2Model ----------------------------
(***************************************************************************)
(* ClassHub (src/app.py): a Flask application over one SQLite database.    *)
(*                                                                         *)
(* Each client (a browser with its own session cookie) runs one request at *)
(* a time; requests of different clients interleave statement by           *)
(* statement.  Every request opens its own sqlite3 connection (get_db), so *)
(* the store follows SQLite's rules: a connection's INSERT/UPDATE opens a  *)
(* transaction implicitly and takes the database's single write lock, its  *)
(* changes are visible to its own reads only until db.commit(), and a      *)
(* connection closed by the teardown handler without a commit loses them.  *)
(* A writer that finds the lock taken waits for it (sqlite3's busy         *)
(* timeout), which is modelled as the action not being enabled.            *)
(*                                                                         *)
(* Strings that the code trims or lower-cases (name, email) are sequences  *)
(* of one-character strings; every other text value is an atom.  Columns   *)
(* no handler reads back (created_at, titles, bodies) are left out of the  *)
(* rows; submitted_at is kept.  A row's id is its position in the table:   *)
(* ids are AUTOINCREMENT and no handler deletes.                           *)
(***************************************************************************)
EXTENDS Integers, Sequences, FiniteSets, TLC

VARIABLES
    db,        \* the committed database: a record of tables
    work,      \* the write-lock holder's uncommitted view (= db when nobody writes)
    owner,     \* the client whose connection holds the write lock, or 0
    session,   \* session[c]: the identity stored in client c's cookie
    pc,        \* pc[c]: where client c's running request stands
    loc,       \* loc[c]: the running request's local variables
    resp,      \* the outcome of the last finished request (its flash message)
    clock      \* datetime.utcnow(), in ticks

vars == <<db, work, owner, session, pc, loc, resp, clock>>

---------------------------------------------------------------------------
(* Bounds *)

NumClients == 2
MaxUsers == 4
MaxEmailLen == 2
MaxCreated == 1
MaxQuizzes == 2
MaxTime == 1
MaxFilled == 2
MaxQuestions == 3

Clients == 1..NumClients

---------------------------------------------------------------------------
(* Values *)

\* Python's None, for an atom-valued form field or column
None == "None"
\* Python's None for a character-sequence field (a symbol no input holds)
NoneSeq == <<"None">>

Roles == {"teacher", "student"}
Labels == {"A", "B", "C", "D"}

\* "user" not in session
NoUser == [id |-> 0, name |-> <<>>, role |-> None, email |-> <<>>]

\* str.lower() on one character
LowerCh(ch) ==
    CASE ch = "A" -> "a"
      [] ch = "B" -> "b"
      [] OTHER -> ch

\* A register() that forgets .lower(): the email is stored as typed
lower_Forgotten(s) == s

\* str.lower()
lower(s) == [i \in 1..Len(s) |-> LowerCh(s[i])]

Whitespace == {" "}

RECURSIVE lstrip(_)
lstrip(s) ==
    IF s # <<>> /\ Head(s) \in Whitespace THEN lstrip(Tail(s)) ELSE s

RECURSIVE rstrip(_)
rstrip(s) ==
    IF s # <<>> /\ s[Len(s)] \in Whitespace
    THEN rstrip(SubSeq(s, 1, Len(s) - 1))
    ELSE s

\* str.strip()
strip(s) == rstrip(lstrip(s))

\* (request.form.get(k) or "") for a character-sequence field
OrEmpty(f) == IF f = NoneSeq THEN <<>> ELSE f

\* (request.form.get(k) or default) for an atom field
OrElse(f, default) == IF f = None \/ f = "" THEN default ELSE f

\* werkzeug's generate_password_hash: one-way, so the hash only names its password
generate_password_hash(pw) == <<"hash", pw>>

\* werkzeug's check_password_hash
check_password_hash(h, pw) == h = generate_password_hash(pw)

\* All sequences over S of length at most n
SeqsUpTo(S, n) == UNION {[1..k -> S] : k \in 0..n}

---------------------------------------------------------------------------
(* The database *)

TeacherEmail == <<"teacher@classhub.local">>
StudentEmail == <<"student@classhub.local">>
DemoPassword == "password123"

\* seed_demo's quiz questions
SeedQuestion(ans) ==
    [quiz_id |-> 1, prompt |-> "p", choice_a |-> "a", choice_b |-> "b",
     choice_c |-> "c", choice_d |-> "d", correct |-> ans]

\* The database after init_db() and seed_demo()
SeedDb ==
    [users |-> <<
        [name |-> <<"Teacher Demo">>, email |-> TeacherEmail,
         password_hash |-> generate_password_hash(DemoPassword), role |-> "teacher"],
        [name |-> <<"Student Demo">>, email |-> StudentEmail,
         password_hash |-> generate_password_hash(DemoPassword), role |-> "student"] >>,
     announcements |-> << [created_by |-> 1] >>,
     assignments |-> << [created_by |-> 1] >>,
     submissions |-> << >>,
     discussions |-> << [created_by |-> 1] >>,
     quizzes |-> << [created_by |-> 1] >>,
     quiz_questions |-> << SeedQuestion("B"), SeedQuestion("C"), SeedQuestion("A") >>,
     quiz_responses |-> << >>,
     quiz_answers |-> << >>]

\* What client c's connection reads: its own uncommitted changes, or the committed rows
View(c) == IF owner = c THEN work ELSE db

\* db.commit() of the changes d by the lock holder (or by a single-statement writer)
Commit(d) == db' = d /\ work' = d /\ owner' = 0

\* The teardown handler closes a connection whose transaction was not committed
Rollback == work' = db /\ owner' = 0 /\ UNCHANGED db

\* The request's local variables; every request starts and ends with these
\* A quiz form's question row whose fields are all missing
BlankRow ==
    [prompt |-> None, a |-> None, b |-> None, c |-> None, d |-> None, correct |-> None]

\* No registration form
NoForm == [name |-> NoneSeq, email |-> NoneSeq, password |-> None, role |-> None]

NoLoc ==
    [aid |-> 0, content |-> None, ex |-> 0,
     qid |-> 0, questions |-> <<>>, resp_id |-> 0, i |-> 0, score |-> 0,
     lastrowid |-> 0, quiz_id |-> 0, form |-> NoForm]

\* The request of client c ends with outcome o
Finish(c, o) ==
    /\ pc' = [pc EXCEPT ![c] = "idle"]
    /\ loc' = [loc EXCEPT ![c] = NoLoc]
    /\ resp' = o

Idle(c) == pc[c] = "idle"

\* A connection can write when no other connection holds the write lock
CanWrite(c) == owner \in {0, c}

Init ==
    /\ db = SeedDb
    /\ work = SeedDb
    /\ owner = 0
    /\ session = [c \in Clients |-> NoUser]
    /\ pc = [c \in Clients |-> "idle"]
    /\ loc = [c \in Clients |-> NoLoc]
    /\ resp = "none"
    /\ clock = 0

---------------------------------------------------------------------------
(* Auth *)

EmailChars == {"a", "A", " "}
EmailInputs == SeqsUpTo(EmailChars, MaxEmailLen) \cup {NoneSeq}

\* A registration form whose name, password and role pass the validation
FilledForm(email, role) ==
    [name |-> <<" ", "n">>, email |-> email, password |-> "pw", role |-> role]

\* The forms a client posts to /register: every email with the other fields
\* filled, and every other field in turn missing, blank or out of range
RegisterForms ==
    {FilledForm(e, r) : e \in EmailInputs, r \in Roles}
    \cup {[FilledForm(<<"a">>, "student") EXCEPT !.name = n] : n \in {NoneSeq, <<" ">>}}
    \cup {[FilledForm(<<"a">>, "student") EXCEPT !.password = p] : p \in {None, ""}}
    \cup {[FilledForm(<<"a">>, "student") EXCEPT !.role = r] : r \in {None, "admin"}}

\* The users table's UNIQUE(email): would inserting this email violate it?
EmailTaken(t, email) == \E i \in 1..Len(t) : t[i].email = email

\* A POST /register arrives with its form
RegisterPost(c, form) ==
    /\ Idle(c)
    /\ pc' = [pc EXCEPT ![c] = "register"]
    /\ loc' = [loc EXCEPT ![c].form = form]
    /\ UNCHANGED <<db, work, owner, session, resp, clock>>

\* register() handles it (lines 167-184)
Register(c) ==
    LET form == loc[c].form
        name == strip(OrEmpty(form.name))
        email == lower(strip(OrEmpty(form.email)))
        pw == OrElse(form.password, "")
    IN
    /\ pc[c] = "register"
    /\ UNCHANGED <<session, clock>>
    /\ IF name = <<>> \/ email = <<>> \/ pw = "" \/ form.role \notin Roles
       THEN /\ Finish(c, "fill_all_fields")
            /\ UNCHANGED <<db, work, owner>>
       ELSE /\ CanWrite(c)
            /\ IF EmailTaken(db.users, email)
               THEN \* sqlite3.IntegrityError, caught
                    /\ Finish(c, "email_already_registered")
                    /\ UNCHANGED <<db, work, owner>>
               ELSE /\ Len(db.users) < MaxUsers
                    /\ Commit([db EXCEPT !.users = Append(@,
                           [name |-> name, email |-> email,
                            password_hash |-> generate_password_hash(pw),
                            role |-> form.role])])
                    /\ Finish(c, "registration_successful")

\* POST /login
Login(c, emailIn, pwIn) ==
    LET email == lower(strip(OrEmpty(emailIn)))
        pw == OrElse(pwIn, "")
        found == {i \in 1..Len(db.users) : db.users[i].email = email}
    IN
    /\ Idle(c)
    /\ UNCHANGED <<db, work, owner, clock>>
    /\ IF \E i \in found : check_password_hash(db.users[i].password_hash, pw)
       THEN /\ \E i \in found :
                 session' = [session EXCEPT ![c] =
                     [id |-> i, name |-> db.users[i].name,
                      role |-> db.users[i].role, email |-> db.users[i].email]]
            /\ Finish(c, "welcome_back")
       ELSE /\ Finish(c, "invalid_credentials")
            /\ UNCHANGED session

\* GET /logout
Logout(c) ==
    /\ Idle(c)
    /\ session' = [session EXCEPT ![c] = NoUser]
    /\ Finish(c, "logged_out")
    /\ UNCHANGED <<db, work, owner, clock>>

\* Registration by concurrent clients
RegisterNext ==
    \E c \in Clients :
        \/ \E form \in RegisterForms : RegisterPost(c, form)
        \/ Register(c)

SpecRegister == Init /\ [][RegisterNext]_vars


---------------------------------------------------------------------------
(* Announcements, assignments, discussions *)

\* A role gate that only asks for a session
NotTeacher_AnySession(c) == session[c] = NoUser

\* if "user" not in session or session["user"]["role"] != "teacher"
NotTeacher(c) == session[c] = NoUser \/ session[c].role # "teacher"

\* POST /announcements/new
AnnouncementNew(c) ==
    /\ Idle(c)
    /\ UNCHANGED <<session, clock>>
    /\ IF NotTeacher(c)
       THEN /\ Finish(c, "teacher_login_required")
            /\ UNCHANGED <<db, work, owner>>
       ELSE /\ CanWrite(c)
            /\ Len(db.announcements) <= MaxCreated
            /\ Commit([db EXCEPT !.announcements =
                   Append(@, [created_by |-> session[c].id])])
            /\ Finish(c, "announcement_posted")

\* POST /assignments/new
AssignmentNew(c) ==
    /\ Idle(c)
    /\ UNCHANGED <<session, clock>>
    /\ IF NotTeacher(c)
       THEN /\ Finish(c, "teacher_login_required")
            /\ UNCHANGED <<db, work, owner>>
       ELSE /\ CanWrite(c)
            /\ Len(db.assignments) <= MaxCreated
            /\ Commit([db EXCEPT !.assignments =
                   Append(@, [created_by |-> session[c].id])])
            /\ Finish(c, "assignment_created")

\* POST /discussions/new
DiscussionNew(c) ==
    /\ Idle(c)
    /\ UNCHANGED <<session, clock>>
    /\ IF NotTeacher(c)
       THEN /\ Finish(c, "teacher_login_required")
            /\ UNCHANGED <<db, work, owner>>
       ELSE /\ CanWrite(c)
            /\ Len(db.discussions) <= MaxCreated
            /\ Commit([db EXCEPT !.discussions =
                   Append(@, [created_by |-> session[c].id])])
            /\ Finish(c, "discussion_created")

---------------------------------------------------------------------------
(* Submissions and grading: POST /assignments/<aid> *)

ContentInputs == {None, "essay"}
ScoreInputs == {"90"}
FeedbackInputs == {None, "ok"}

\* The score column has REAL affinity: SQLite stores numeric text as a number
RealAffinity(s) == IF s = "90" THEN "90.0" ELSE s

\* SELECT id FROM submissions WHERE assignment_id=? AND student_id=?  (.fetchone(), 0 for no row)
SubmissionOf(t, aid, sid) ==
    LET found == {i \in 1..Len(t) : t[i].assignment_id = aid /\ t[i].student_id = sid}
    IN IF found = {} THEN 0 ELSE CHOOSE i \in found : \A j \in found : i <= j

\* datetime.utcnow() moves on
Tick ==
    /\ clock < MaxTime
    /\ clock' = clock + 1
    /\ UNCHANGED <<db, work, owner, session, pc, loc, resp>>

\* A student's POST, up to the existence check (lines 279-288)
SubmitRead(c, aid, contentIn) ==
    /\ Idle(c)
    /\ UNCHANGED <<db, work, owner, session, clock>>
    /\ IF aid \notin 1..Len(db.assignments)
       THEN Finish(c, "assignment_not_found")
       ELSE IF session[c] # NoUser /\ session[c].role = "student"
       THEN /\ pc' = [pc EXCEPT ![c] = "submit_write"]
            /\ loc' = [loc EXCEPT ![c] =
                   [NoLoc EXCEPT !.aid = aid,
                                 !.content = OrElse(contentIn, ""),
                                 !.ex = SubmissionOf(db.submissions, aid, session[c].id)]]
            /\ UNCHANGED resp
       ELSE IF session[c] # NoUser /\ session[c].role = "teacher"
       THEN \* a teacher's POST without sid
            Finish(c, "detail_rendered")
       ELSE Finish(c, "detail_rendered")

\* A resubmission that inserts a second row instead of updating the first
UpdateSubmission_AsInsert(t, id, content, now) ==
    Append(t, [t[id] EXCEPT !.content = content, !.submitted_at = now])

\* A resubmission that also clears the grade
UpdateSubmission_ClearsGrade(t, id, content, now) ==
    [t EXCEPT ![id].content = content, ![id].submitted_at = now,
              ![id].score = None, ![id].feedback = None]

\* The UPDATE of an existing submission (line 290)
UpdateSubmission(t, id, content, now) ==
    [t EXCEPT ![id].content = content, ![id].submitted_at = now]

\* The INSERT of a new submission (lines 292-293)
InsertSubmission(t, aid, sid, content, now) ==
    Append(t, [assignment_id |-> aid, student_id |-> sid, content |-> content,
               submitted_at |-> now, score |-> None, feedback |-> None])

\* UNIQUE(assignment_id, student_id) on submissions
SubmissionUnique(t, aid, sid) ==
    ~ \E i \in 1..Len(t) : t[i].assignment_id = aid /\ t[i].student_id = sid

\* A student's POST, the write and the commit (lines 289-295)
SubmitWrite(c) ==
    LET l == loc[c]
        sid == session[c].id
    IN
    /\ pc[c] = "submit_write"
    /\ CanWrite(c)
    /\ UNCHANGED <<session, clock>>
    /\ IF l.ex # 0
       THEN /\ Commit([db EXCEPT !.submissions =
                   UpdateSubmission(@, l.ex, l.content, clock)])
            /\ Finish(c, "submission_saved")
       ELSE IF SubmissionUnique(db.submissions, l.aid, sid)
       THEN /\ Commit([db EXCEPT !.submissions =
                   InsertSubmission(@, l.aid, sid, l.content, clock)])
            /\ Finish(c, "submission_saved")
       ELSE \* sqlite3.IntegrityError, not caught: the request fails
            /\ Rollback
            /\ Finish(c, "error_500")

\* The UPDATE of the grade (line 305); an id that matches no row changes nothing
GradeSubmission(t, sid, score, feedback) ==
    IF sid \in 1..Len(t)
    THEN [t EXCEPT ![sid].score = RealAffinity(score), ![sid].feedback = feedback]
    ELSE t

\* A teacher's POST (lines 298-307); sid = 0 stands for a form without sid
Grade(c, aid, sid, score, feedback) ==
    /\ Idle(c)
    /\ session[c] # NoUser /\ session[c].role = "teacher"
    /\ UNCHANGED <<session, clock>>
    /\ IF aid \notin 1..Len(db.assignments)
       THEN /\ Finish(c, "assignment_not_found")
            /\ UNCHANGED <<db, work, owner>>
       ELSE IF sid = 0
       THEN /\ Finish(c, "detail_rendered")
            /\ UNCHANGED <<db, work, owner>>
       ELSE /\ CanWrite(c)
            /\ Commit([db EXCEPT !.submissions =
                   GradeSubmission(@, sid, score, feedback)])
            /\ Finish(c, "graded")

AssignmentIds == 1..(MaxCreated + 1)
SubmissionIds == 0..(MaxCreated + 2)

SubmitNext ==
    \/ Tick
    \/ \E c \in Clients :
        \/ \E e \in {TeacherEmail, StudentEmail} : Login(c, e, DemoPassword)
        \/ AssignmentNew(c)
        \/ \E aid \in AssignmentIds, content \in ContentInputs : SubmitRead(c, aid, content)
        \/ SubmitWrite(c)
        \/ \E aid \in AssignmentIds, sid \in SubmissionIds,
              score \in ScoreInputs, feedback \in FeedbackInputs :
               Grade(c, aid, sid, score, feedback)

SpecSubmit == Init /\ [][SubmitNext]_vars


---------------------------------------------------------------------------
(* Quizzes: POST /quizzes/new *)

\* for i in range(1,6)
QuestionRows == 5

\* Python's truth value of a form field
Truthy(x) == x # None /\ x # ""

\* A row test that does not look at the correct label
RowAccepted_AnyLabel(row) ==
    /\ Truthy(row.prompt)
    /\ Truthy(row.a) /\ Truthy(row.b) /\ Truthy(row.c) /\ Truthy(row.d)

\* if prompt and a and b and c and d and correct in ("A","B","C","D")
RowAccepted(row) ==
    /\ Truthy(row.prompt)
    /\ Truthy(row.a) /\ Truthy(row.b) /\ Truthy(row.c) /\ Truthy(row.d)
    /\ row.correct \in Labels

\* The quiz_questions row the INSERT of lines 370-371 writes
QuestionRow(quiz_id, row) ==
    [quiz_id |-> quiz_id, prompt |-> row.prompt, choice_a |-> row.a,
     choice_b |-> row.b, choice_c |-> row.c, choice_d |-> row.d,
     correct |-> row.correct]

\* The role gate, the INSERT of the quiz and the first db.commit() (lines 356-363)
QuizNewStart(c) ==
    /\ Idle(c)
    /\ UNCHANGED <<session, clock>>
    /\ IF NotTeacher(c)
       THEN /\ Finish(c, "teacher_login_required")
            /\ UNCHANGED <<db, work, owner>>
       ELSE /\ CanWrite(c)
            /\ Len(db.quizzes) <= MaxQuizzes
            /\ Commit([db EXCEPT !.quizzes = Append(@, [created_by |-> session[c].id])])
            /\ pc' = [pc EXCEPT ![c] = "qn_select"]
            /\ loc' = [loc EXCEPT ![c] = [NoLoc EXCEPT !.lastrowid = Len(db.quizzes) + 1]]
            /\ UNCHANGED resp

\* SELECT id FROM quizzes ORDER BY id DESC LIMIT 1
LatestQuiz(t) == Len(t)

\* quiz_id = the newest quiz of the table (line 364)
QuizNewSelect(c) ==
    /\ pc[c] = "qn_select"
    /\ pc' = [pc EXCEPT ![c] = "qn_rows"]
    /\ loc' = [loc EXCEPT ![c].quiz_id = LatestQuiz(View(c).quizzes), ![c].i = 1]
    /\ UNCHANGED <<db, work, owner, session, resp, clock>>

\* One turn of the loop over the form's question rows (lines 365-371)
QuizNewRow(c, row) ==
    /\ pc[c] = "qn_rows"
    /\ loc[c].i <= QuestionRows
    /\ loc' = [loc EXCEPT ![c].i = @ + 1]
    /\ IF RowAccepted(row)
       THEN /\ CanWrite(c)
            /\ work' = [View(c) EXCEPT !.quiz_questions =
                   Append(@, QuestionRow(loc[c].quiz_id, row))]
            /\ owner' = c
       ELSE UNCHANGED <<work, owner>>
    /\ UNCHANGED <<db, session, pc, resp, clock>>

\* The second db.commit() and the redirect (lines 372-373)
QuizNewCommit(c) ==
    /\ pc[c] = "qn_rows"
    /\ loc[c].i > QuestionRows
    /\ IF owner = c THEN Commit(work) ELSE UNCHANGED <<db, work, owner>>
    /\ Finish(c, "quiz_created")
    /\ UNCHANGED <<session, clock>>

---------------------------------------------------------------------------
(* Quizzes: POST /quizzes/<qid> *)

\* SELECT * FROM quiz_questions WHERE quiz_id=?  (.fetchall(): id and correct, in id order)
RECURSIVE QuestionsFrom(_, _, _)
QuestionsFrom(t, qid, k) ==
    IF k > Len(t) THEN <<>>
    ELSE IF t[k].quiz_id = qid
         THEN <<[id |-> k, correct |-> t[k].correct]>> \o QuestionsFrom(t, qid, k + 1)
         ELSE QuestionsFrom(t, qid, k + 1)

QuestionsOf(t, qid) == QuestionsFrom(t, qid, 1)

\* An existence check that never finds a response
ResponseOf_Blind(t, qid, sid) == 0

\* SELECT id FROM quiz_responses WHERE quiz_id=? AND student_id=?  (0 for no row)
ResponseOf(t, qid, sid) ==
    LET found == {i \in 1..Len(t) : t[i].quiz_id = qid /\ t[i].student_id = sid}
    IN IF found = {} THEN 0 ELSE CHOOSE i \in found : \A j \in found : i <= j

\* The quiz and its questions are read (lines 379-381)
QuizTakeStart(c, qid) ==
    /\ Idle(c)
    /\ UNCHANGED <<db, work, owner, session, clock>>
    /\ IF qid \notin 1..Len(db.quizzes)
       THEN Finish(c, "quiz_not_found")
       ELSE /\ pc' = [pc EXCEPT ![c] = "qt_check"]
            /\ loc' = [loc EXCEPT ![c] =
                   [NoLoc EXCEPT !.qid = qid,
                                 !.questions = QuestionsOf(db.quiz_questions, qid)]]
            /\ UNCHANGED resp

\* The role gate and the already-submitted check (lines 383-386)
QuizTakeCheck(c) ==
    /\ pc[c] = "qt_check"
    /\ UNCHANGED <<db, work, owner, session, clock>>
    /\ IF session[c] = NoUser \/ session[c].role # "student"
       THEN Finish(c, "student_login_required")
       ELSE IF ResponseOf(db.quiz_responses, loc[c].qid, session[c].id) # 0
       THEN Finish(c, "already_submitted")
       ELSE /\ pc' = [pc EXCEPT ![c] = "qt_insert"]
            /\ UNCHANGED <<loc, resp>>

\* score REAL DEFAULT 0, as the fraction num/den
ScoreDefault == [num |-> 0, den |-> 1]

\* UNIQUE(quiz_id, student_id) on quiz_responses
ResponseUnique(t, qid, sid) ==
    ~ \E i \in 1..Len(t) : t[i].quiz_id = qid /\ t[i].student_id = sid

\* The INSERT of the response, which opens the transaction, and the SELECT of its id
\* (lines 387-390)
QuizTakeInsert(c) ==
    LET sid == session[c].id IN
    /\ pc[c] = "qt_insert"
    /\ CanWrite(c)
    /\ UNCHANGED <<db, session, clock>>
    /\ IF ResponseUnique(db.quiz_responses, loc[c].qid, sid)
       THEN /\ work' = [db EXCEPT !.quiz_responses = Append(@,
                   [quiz_id |-> loc[c].qid, student_id |-> sid,
                    submitted_at |-> clock, score |-> ScoreDefault])]
            /\ owner' = c
            /\ pc' = [pc EXCEPT ![c] = "qt_answers"]
            /\ loc' = [loc EXCEPT ![c].resp_id = Len(db.quiz_responses) + 1,
                                  ![c].i = 1, ![c].score = 0]
            /\ UNCHANGED resp
       ELSE \* sqlite3.IntegrityError, not caught: the request fails
            /\ Rollback
            /\ Finish(c, "error_500")

\* CHECK(answer IN ('A','B','C','D')): NULL passes a CHECK constraint
AnswerCheck(ans) == ans = None \/ ans \in Labels

\* One turn of the loop over the questions (lines 391-394)
QuizTakeAnswer(c, ans) ==
    LET q == loc[c].questions[loc[c].i] IN
    /\ pc[c] = "qt_answers"
    /\ loc[c].i <= Len(loc[c].questions)
    /\ UNCHANGED <<db, session, clock>>
    /\ IF AnswerCheck(ans)
       THEN /\ work' = [work EXCEPT !.quiz_answers = Append(@,
                   [response_id |-> loc[c].resp_id, question_id |-> q.id,
                    answer |-> ans])]
            /\ loc' = [loc EXCEPT ![c].i = @ + 1,
                                  ![c].score = IF ans = q.correct THEN @ + 1 ELSE @]
            /\ UNCHANGED <<owner, pc, resp>>
       ELSE \* sqlite3.IntegrityError, not caught: the request fails
            /\ Rollback
            /\ Finish(c, "error_500")

\* A score that leaves out the factor 100
Percent_Fraction(score, total) == [num |-> score, den |-> total]

\* pct = (score/total)*100.0, as the fraction num/den
Percent(score, total) == [num |-> score * 100, den |-> total]

\* total = len(questions) or 1
Total(questions) == IF Len(questions) = 0 THEN 1 ELSE Len(questions)

\* The UPDATE of the score and db.commit() (lines 395-398)
QuizTakeFinish(c) ==
    /\ pc[c] = "qt_answers"
    /\ loc[c].i > Len(loc[c].questions)
    /\ Commit([work EXCEPT !.quiz_responses[loc[c].resp_id].score =
           Percent(loc[c].score, Total(loc[c].questions))])
    /\ Finish(c, "quiz_submitted")
    /\ UNCHANGED <<session, clock>>

---------------------------------------------------------------------------
(* Specifications *)

DemoLogin(c) == \E e \in {TeacherEmail, StudentEmail} : Login(c, e, DemoPassword)

\* A fully filled question row
GoodRow(label) ==
    [prompt |-> "p", a |-> "a", b |-> "b", c |-> "c", d |-> "d", correct |-> label]

\* The question rows a form may hold at row i: the rows after MaxFilled are left blank
RowInputs(i) ==
    IF i <= MaxFilled
    THEN {GoodRow("A"), BlankRow, [BlankRow EXCEPT !.prompt = "p"],
          [GoodRow("A") EXCEPT !.d = ""], GoodRow("E")}
    ELSE {BlankRow}

\* The quizzes taken beside quiz creation: the new ones, and one that does not exist
QuizIds == 2..(MaxQuizzes + 2)

\* Quiz creation and quiz taking by concurrent clients
QuizNext ==
    \E c \in Clients :
        \/ DemoLogin(c)
        \/ QuizNewStart(c)
        \/ QuizNewSelect(c)
        \/ \E row \in RowInputs(loc[c].i) : QuizNewRow(c, row)
        \/ QuizNewCommit(c)
        \/ \E qid \in QuizIds : QuizTakeStart(c, qid)
        \/ QuizTakeCheck(c)
        \/ QuizTakeInsert(c)
        \/ \E ans \in {"A", None, "X"} : QuizTakeAnswer(c, ans)
        \/ QuizTakeFinish(c)

SpecQuiz == Init /\ [][QuizNext]_vars

\* The four create operations under every session
ContentNext ==
    \E c \in Clients :
        \/ DemoLogin(c)
        \/ Logout(c)
        \/ AnnouncementNew(c)
        \/ AssignmentNew(c)
        \/ DiscussionNew(c)
        \/ QuizNewStart(c)
        \/ QuizNewSelect(c)
        \/ \E row \in {GoodRow("A"), BlankRow} : QuizNewRow(c, row)
        \/ QuizNewCommit(c)

SpecContent == Init /\ [][ContentNext]_vars

\* The seeded database with one more quiz, created by the demo teacher, whose
\* questions have the correct labels qs
DbWithQuiz(qs) ==
    [SeedDb EXCEPT
        !.quizzes = Append(@, [created_by |-> 1]),
        !.quiz_questions = @ \o [k \in 1..Len(qs) |-> QuestionRow(2, GoodRow(qs[k]))]]

\* Quiz taking, for every quiz of up to MaxQuestions questions that quiz creation
\* can leave behind
InitScore ==
    /\ \E qs \in SeqsUpTo({"A", "B"}, MaxQuestions) :
           db = DbWithQuiz(qs) /\ work = DbWithQuiz(qs)
    /\ owner = 0
    /\ session = [c \in Clients |-> NoUser]
    /\ pc = [c \in Clients |-> "idle"]
    /\ loc = [c \in Clients |-> NoLoc]
    /\ resp = "none"
    /\ clock = 0

ScoreNext ==
    \E c \in Clients :
        \/ DemoLogin(c)
        \/ \E qid \in {2, 3} : QuizTakeStart(c, qid)
        \/ QuizTakeCheck(c)
        \/ QuizTakeInsert(c)
        \/ \E ans \in {"A", "B", None, "X"} : QuizTakeAnswer(c, ans)
        \/ QuizTakeFinish(c)

SpecScore == InitScore /\ [][ScoreNext]_vars


\* The whole application
Next == RegisterNext \/ ContentNext \/ SubmitNext \/ QuizNext

Spec == Init /\ [][Next]_vars

---------------------------------------------------------------------------
(* Claims *)

\* Two emails are the same up to letter case
SameIgnoringCase(a, b) ==
    Len(a) = Len(b) /\ \A k \in 1..Len(a) : LowerCh(a[k]) = LowerCh(b[k])

\* A stored email is trimmed and holds no upper-case letter
Normalised(e) ==
    /\ e # <<>>
    /\ Head(e) \notin Whitespace /\ e[Len(e)] \notin Whitespace
    /\ \A k \in 1..Len(e) : LowerCh(e[k]) = e[k]

NoTwoUsersShareAnEmail ==
    \A i, j \in 1..Len(db.users) :
        i # j => ~ SameIgnoringCase(db.users[i].email, db.users[j].email)

\* What a register call with a filled form must do
RegisterContract(emailIn) ==
    LET typed == strip(OrEmpty(emailIn)) IN
    IF \E i \in 1..Len(db.users) : SameIgnoringCase(db.users[i].email, typed)
    THEN resp' = "email_already_registered" /\ db' = db
    ELSE /\ resp' = "registration_successful"
         /\ Len(db'.users) = Len(db.users) + 1
         /\ SubSeq(db'.users, 1, Len(db.users)) = db.users
         /\ Normalised(db'.users[Len(db'.users)].email)
         /\ SameIgnoringCase(db'.users[Len(db'.users)].email, typed)

\* The form passes register's validation
Filled(form) ==
    /\ strip(OrEmpty(form.name)) # <<>>
    /\ strip(OrEmpty(form.email)) # <<>>
    /\ form.password \notin {None, ""}
    /\ form.role \in Roles

\* C1: no two users ever share an email up to letter case; register stores the
\* email trimmed and lower-cased, and a register call whose email matches a stored
\* one in any letter case ends with the duplicate-email outcome and leaves every
\* table as it was.
C1_EmailUniqueIgnoringCase ==
    /\ []NoTwoUsersShareAnEmail
    /\ [][\A c \in Clients :
             (Register(c) /\ Filled(loc[c].form))
             => RegisterContract(loc[c].form.email)]_vars

\* A registration in another letter case was turned down: "a" is stored once, and
\* the last request ended with the duplicate-email outcome
C1_Witness ==
    /\ resp = "email_already_registered"
    /\ Len(db.users) = 3
    /\ db.users[3].email = <<"a">>

\* The submissions of a student for an assignment
RowsOfPair(t, aid, sid) ==
    {i \in 1..Len(t) : t[i].assignment_id = aid /\ t[i].student_id = sid}

AtMostOneSubmissionPerPair ==
    \A i, j \in 1..Len(db.submissions) :
        ( /\ db.submissions[i].assignment_id = db.submissions[j].assignment_id
          /\ db.submissions[i].student_id = db.submissions[j].student_id ) => i = j

\* What client c's submit found when it looked for its row is still what the table holds
ReadStillHolds(c) ==
    LET mine == RowsOfPair(db.submissions, loc[c].aid, session[c].id) IN
    IF loc[c].ex = 0 THEN mine = {} ELSE mine = {loc[c].ex}

\* C2: a student's submits on an assignment, run one after another, leave exactly
\* one submission for the pair, holding the content of the latest submit: the first
\* submit inserts the row and every later one updates that row in place.
C2_OneSubmissionLatestContent ==
    /\ []AtMostOneSubmissionPerPair
    /\ [][\A c \in Clients :
             (SubmitWrite(c) /\ ReadStillHolds(c)) =>
                 LET mine == RowsOfPair(db'.submissions, loc[c].aid, session[c].id) IN
                 /\ resp' = "submission_saved"
                 /\ Cardinality(mine) = 1
                 /\ \A k \in mine : db'.submissions[k].content = loc[c].content
                 /\ IF loc[c].ex = 0
                    THEN Len(db'.submissions) = Len(db.submissions) + 1
                    ELSE /\ Len(db'.submissions) = Len(db.submissions)
                         /\ mine = {loc[c].ex}]_vars

\* A graded submission was submitted again: its row is still the only one, and
\* holds the new content
C2_Witness ==
    /\ resp = "submission_saved"
    /\ Len(db.submissions) = 1
    /\ db.submissions[1].content = "essay"
    /\ db.submissions[1].score # None

\* C8 as claimed: when the INSERT of a submission meets a row that a concurrent
\* request of the same student committed after this request's existence check, the
\* handler falls back to updating that row and the submission is saved.
C8_ConflictFallsBackToUpdate ==
    [][\A c \in Clients :
          ( /\ SubmitWrite(c)
            /\ loc[c].ex = 0
            /\ RowsOfPair(db.submissions, loc[c].aid, session[c].id) # {} ) =>
              /\ resp' = "submission_saved"
              /\ \A k \in RowsOfPair(db'.submissions, loc[c].aid, session[c].id) :
                    db'.submissions[k].content = loc[c].content]_vars

\* The columns of a submission that grading sets
Grading(r) == <<r.score, r.feedback>>

\* The columns of a submission that grading leaves alone
Submitted(r) == <<r.assignment_id, r.student_id, r.content, r.submitted_at>>

\* A submit by client c touches its own row only, and no grade
SubmitFrame(c) ==
    /\ Len(db'.submissions) \in {Len(db.submissions), Len(db.submissions) + 1}
    /\ \A i \in 1..Len(db.submissions) :
          /\ Grading(db'.submissions[i]) = Grading(db.submissions[i])
          /\ db'.submissions[i].assignment_id = db.submissions[i].assignment_id
          /\ db'.submissions[i].student_id = db.submissions[i].student_id
          /\ db'.submissions[i] # db.submissions[i] =>
                /\ db.submissions[i].student_id = session[c].id
                /\ db.submissions[i].assignment_id = loc[c].aid
    /\ \A i \in (Len(db.submissions) + 1)..Len(db'.submissions) :
          /\ Grading(db'.submissions[i]) = <<None, None>>
          /\ db'.submissions[i].student_id = session[c].id
          /\ db'.submissions[i].assignment_id = loc[c].aid

\* A grade of submission sid touches the grade of that row only
GradeFrame(sid) ==
    /\ Len(db'.submissions) = Len(db.submissions)
    /\ \A i \in 1..Len(db.submissions) :
          /\ Submitted(db'.submissions[i]) = Submitted(db.submissions[i])
          /\ i # sid => db'.submissions[i] = db.submissions[i]

\* C9: a step changes the submissions only as a student's submit, which changes
\* the content and submitted_at of that student's own row (or adds it, ungraded)
\* and keeps every score and feedback, or as a teacher's grade, which changes the
\* score and feedback of the one row it names and nothing else.
C9_GradeOnlyChangesGrade ==
    [][db'.submissions # db.submissions =>
          \/ \E c \in Clients :
                /\ session[c].role = "student"
                /\ SubmitWrite(c)
                /\ SubmitFrame(c)
          \/ \E c \in Clients, aid \in AssignmentIds, sid \in SubmissionIds,
                score \in ScoreInputs, feedback \in FeedbackInputs :
                /\ session[c].role = "teacher"
                /\ Grade(c, aid, sid, score, feedback)
                /\ GradeFrame(sid)]_vars

\* A submission was graded and then submitted again at a later time: the grade is
\* still there
C9_Witness ==
    /\ resp = "submission_saved"
    /\ Len(db.submissions) = 1
    /\ db.submissions[1].submitted_at = 1
    /\ db.submissions[1].score = "90.0"
    /\ db.submissions[1].feedback = "ok"

\* The student of client c's session has a response to quiz qid
HasResponse(c, qid) ==
    \E i \in 1..Len(db.quiz_responses) :
        /\ db.quiz_responses[i].quiz_id = qid
        /\ db.quiz_responses[i].student_id = session[c].id

\* Every committed response, and every answer of a committed response, stays as it is
CommittedResponsesKept ==
    /\ Len(db'.quiz_responses) >= Len(db.quiz_responses)
    /\ \A i \in 1..Len(db.quiz_responses) : db'.quiz_responses[i] = db.quiz_responses[i]
    /\ Len(db'.quiz_answers) >= Len(db.quiz_answers)
    /\ \A i \in 1..Len(db.quiz_answers) : db'.quiz_answers[i] = db.quiz_answers[i]
    /\ \A i \in (Len(db.quiz_answers) + 1)..Len(db'.quiz_answers) :
          db'.quiz_answers[i].response_id > Len(db.quiz_responses)

\* C3: once a student has a response to a quiz, a later submission of that student
\* to that quiz is answered "already submitted" and writes nothing; and no step
\* changes the score or the answers of a committed response.
C3_NoRetake ==
    [][ /\ \A c \in Clients :
              ( /\ QuizTakeCheck(c)
                /\ session[c] # NoUser
                /\ session[c].role = "student"
                /\ HasResponse(c, loc[c].qid) ) =>
                  /\ resp' = "already_submitted"
                  /\ pc'[c] = "idle"
                  /\ db' = db
                  /\ work' = work
        /\ CommittedResponsesKept ]_vars

\* A second submission was turned away
C3_Witness ==
    /\ resp = "already_submitted"
    /\ Len(db.quiz_responses) >= 1
    /\ \A c \in Clients : pc[c] = "idle"

\* The questions of quiz qid in table t
QuestionIdsOf(t, qid) == {k \in 1..Len(t) : t[k].quiz_id = qid}

\* The questions of response r's quiz that r answered with the correct label
CorrectlyAnswered(d, r) ==
    {k \in QuestionIdsOf(d.quiz_questions, d.quiz_responses[r].quiz_id) :
        \E a \in 1..Len(d.quiz_answers) :
            /\ d.quiz_answers[a].response_id = r
            /\ d.quiz_answers[a].question_id = k
            /\ d.quiz_answers[a].answer = d.quiz_questions[k].correct}

\* A score num/den to one decimal, in tenths
OneDecimal(p) == (20 * p.num + p.den) \div (2 * p.den)

\* C4: a successful submission stores score = c / max(n, 1) * 100, where n is the
\* number of questions of the quiz and c the number of them answered with the
\* correct label; so the score is between 0 and 100, is 0 for a quiz without
\* questions, and is 66.7 to one decimal for 2 correct of 3.
C4_ScoreIsPercentCorrect ==
    [][\A c \in Clients :
          QuizTakeFinish(c) =>
              LET r == loc[c].resp_id
                  p == db'.quiz_responses[r].score
                  n == Cardinality(QuestionIdsOf(db'.quiz_questions, db'.quiz_responses[r].quiz_id))
                  k == Cardinality(CorrectlyAnswered(db', r))
                  m == IF n > 1 THEN n ELSE 1
              IN /\ resp' = "quiz_submitted"
                 /\ p.den > 0
                 /\ p.num * m = k * 100 * p.den
                 /\ 0 <= p.num /\ p.num <= 100 * p.den
                 /\ n = 0 => p.num = 0
                 /\ (n = 3 /\ k = 2) => OneDecimal(p) = 667]_vars

\* A response with 2 correct answers of 3 is committed
C4_Witness ==
    \E r \in 1..Len(db.quiz_responses) :
        /\ Cardinality(QuestionIdsOf(db.quiz_questions, db.quiz_responses[r].quiz_id)) = 3
        /\ Cardinality(CorrectlyAnswered(db, r)) = 2
        /\ OneDecimal(db.quiz_responses[r].score) = 667

\* A question row with a non-empty prompt, four non-empty choices and a label A-D
FullyFilled(row) ==
    /\ \A f \in {"prompt", "a", "b", "c", "d"} : row[f] \notin {None, ""}
    /\ row.correct \in {"A", "B", "C", "D"}

\* C5: quiz creation by a teacher creates the quiz whatever its rows are, writes
\* one question for each fully filled row and nothing for any other row, without
\* failing, and its commit persists exactly the questions written.
C5_ValidRowsPersisted ==
    [][\A c \in Clients :
          /\ (QuizNewStart(c) /\ session[c] # NoUser /\ session[c].role = "teacher") =>
                /\ Len(db'.quizzes) = Len(db.quizzes) + 1
                /\ db'.quiz_questions = db.quiz_questions
          /\ (pc[c] = "qn_rows" /\ loc'[c].i # loc[c].i) =>
                \A row \in RowInputs(loc[c].i) :
                    QuizNewRow(c, row) =>
                        /\ pc'[c] = "qn_rows"
                        /\ IF FullyFilled(row)
                           THEN /\ Len(work'.quiz_questions) = Len(View(c).quiz_questions) + 1
                                /\ \A k \in 1..Len(View(c).quiz_questions) :
                                      work'.quiz_questions[k] = View(c).quiz_questions[k]
                                /\ work'.quiz_questions[Len(work'.quiz_questions)] =
                                      [quiz_id |-> loc[c].quiz_id, prompt |-> row.prompt,
                                       choice_a |-> row.a, choice_b |-> row.b,
                                       choice_c |-> row.c, choice_d |-> row.d,
                                       correct |-> row.correct]
                           ELSE work' = work /\ owner' = owner
          /\ QuizNewCommit(c) =>
                /\ resp' = "quiz_created"
                /\ db'.quiz_questions = View(c).quiz_questions
                /\ db'.quizzes = db.quizzes ]_vars

\* A quiz was created from a form with two fully filled rows: it has two questions
C5_Witness ==
    /\ resp = "quiz_created"
    /\ Len(db.quizzes) = 2
    /\ Cardinality(QuestionIdsOf(db.quiz_questions, 2)) = 2
    /\ \A c \in Clients : pc[c] = "idle"

\* The ids of the users who are teachers
TeacherIds == {i \in 1..Len(db.users) : db.users[i].role = "teacher"}

CreatedByTeachers ==
    \A t \in {"announcements", "assignments", "discussions", "quizzes"} :
        \A i \in 1..Len(db[t]) : db[t][i].created_by \in TeacherIds

\* C6: a create request for an announcement, assignment, discussion or quiz made
\* without a session or with a student's session is rejected and writes nothing;
\* and every row these operations created was created by a teacher.
C6_OnlyTeachersCreate ==
    /\ []CreatedByTeachers
    /\ [][\A c \in Clients :
             ( /\ session[c] = NoUser \/ session[c].role = "student"
               /\ \/ AnnouncementNew(c)
                  \/ AssignmentNew(c)
                  \/ DiscussionNew(c)
                  \/ QuizNewStart(c) ) =>
                 /\ resp' = "teacher_login_required"
                 /\ pc'[c] = "idle"
                 /\ db' = db
                 /\ work' = work]_vars

\* A student's create request was rejected
C6_Witness ==
    /\ resp = "teacher_login_required"
    /\ \E c \in Clients : session[c] # NoUser /\ session[c].role = "student"
    /\ \A c \in Clients : pc[c] = "idle"

\* C7 as claimed: in every committed state, a response exists together with one
\* answer for each question of its quiz.
C7_ResponseHasAnAnswerPerQuestion ==
    \A r \in 1..Len(db.quiz_responses) :
        \A k \in QuestionIdsOf(db.quiz_questions, db.quiz_responses[r].quiz_id) :
            Cardinality({a \in 1..Len(db.quiz_answers) :
                            /\ db.quiz_answers[a].response_id = r
                            /\ db.quiz_answers[a].question_id = k}) = 1

\* C10 as claimed: while a quiz creation has not yet persisted its questions, no
\* response is recorded against the quiz it is creating.
C10_NoResponseBeforeQuestions ==
    \A c \in Clients :
        pc[c] \in {"qn_select", "qn_rows"} =>
            \A r \in 1..Len(db.quiz_responses) :
                db.quiz_responses[r].quiz_id # loc[c].lastrowid

\* C11 as claimed: every question a quiz creation persists carries the id of the
\* quiz that the same request inserted.
C11_QuestionsCarryOwnQuizId ==
    [][\A c \in Clients :
          QuizNewCommit(c) =>
              \A k \in (Len(db.quiz_questions) + 1)..Len(db'.quiz_questions) :
                  db'.quiz_questions[k].quiz_id = loc[c].lastrowid]_vars

=============================================================================
